---- MODULE Spec2Model ----
(***************************************************************************)
(* Squad optimisation core of eafc26-meta-builder.                         *)
(*                                                                         *)
(*   optimizer/chemistry.py  ChemistryCalculator (the chemistry evaluator) *)
(*   optimizer/solver.py     SquadOptimizer (candidate provider, CP-SAT    *)
(*                           model, solution extraction)                   *)
(*   optimizer/main.py       main (the command line entry point)           *)
(*                                                                         *)
(* Scores are integers in thousandths of a rating point (80.8 is 80800),   *)
(* prices are integer coins.  An absent value (Python None, a missing key) *)
(* is None.                                                                *)
(***************************************************************************)
EXTENDS Integers, Sequences, FiniteSets, TLC

VARIABLES
    catalogue,      \* the players collection: ea_id -> player document
    owned,          \* the my_club collection: set of player_ea_id
    args,           \* the request: positions, budget, min_chemistry, ...
    pc,             \* position of the run inside main / optimize_squad
    db_log,         \* database operations performed so far, in order
    owned_ids,      \* optimize_squad's owned_player_ids
    candidates,     \* optimize_squad's candidates: one list of ea_ids per slot fetched
    solved,         \* CP-SAT outcome: status and the value of x (slot -> candidate index)
    result,         \* the dict optimize_squad returns
    exit_code,      \* the exit status of main
    evaluator       \* a ChemistryCalculator call: the squad it is given, what it returned

vars ==
    <<catalogue, owned, args, pc, db_log, owned_ids, candidates, solved, result, exit_code,
      evaluator>>

\* Python None / a key that is absent from a document.
None == -1

\* Python truthiness of an id read with player.get(...): None and 0 are falsy.
Truthy(v) == v # None /\ v # 0

Min2(a, b) == IF a <= b THEN a ELSE b
Max2(a, b) == IF a >= b THEN a ELSE b

RECURSIVE SeqSum(_)
SeqSum(s) == IF s = <<>> THEN 0 ELSE Head(s) + SeqSum(Tail(s))

SetMin(S) == CHOOSE m \in S : \A n \in S : m <= n

Range(s) == {s[i] : i \in DOMAIN s}

(***************************************************************************)
(* Names: sequences of characters, normalised as name.strip().lower().     *)
(***************************************************************************)
\* str.lower() on one character, for the capitals that occur in the catalogue.
Lower(c) ==
    CASE c = "P" -> "p"
      [] c = "S" -> "s"
      [] c = "U" -> "u"
      [] OTHER -> c

RECURSIVE LStrip(_)
LStrip(n) == IF n # <<>> /\ Head(n) = " " THEN LStrip(Tail(n)) ELSE n

RECURSIVE RStrip(_)
RStrip(n) ==
    IF n # <<>> /\ n[Len(n)] = " " THEN RStrip(SubSeq(n, 1, Len(n) - 1)) ELSE n

Strip(n) == RStrip(LStrip(n))

NormName(n) == LET t == Strip(n) IN [i \in 1..Len(t) |-> Lower(t[i])]

UnknownName == <<"u", "n", "k", "n", "o", "w", "n">>

(***************************************************************************)
(* optimizer/chemistry.py                                                  *)
(***************************************************************************)
THRESHOLDS ==
    [club   |-> (2 :> 1) @@ (4 :> 2) @@ (7 :> 3),
     league |-> (3 :> 1) @@ (5 :> 2) @@ (8 :> 3),
     nation |-> (2 :> 1) @@ (5 :> 2) @@ (8 :> 3)]

\* count_teammates without the double counting of special cards.
count_teammates_no_double(squad, attribute, target_value, count_double_for) ==
    SeqSum([i \in 1..Len(squad) |-> IF squad[i][attribute] = target_value THEN 1 ELSE 0])

\* count_teammates with "count = 2" in place of "count += 2": the count after
\* the first n players.
RECURSIVE CountAssigning(_, _, _, _, _)
CountAssigning(squad, attribute, target_value, count_double_for, n) ==
    IF n = 0 THEN 0
    ELSE LET count == CountAssigning(squad, attribute, target_value, count_double_for, n - 1)
         IN  IF squad[n][attribute] = target_value
             THEN (IF count_double_for # "" /\ squad[n][count_double_for] THEN 2
                   ELSE count + 1)
             ELSE count

count_teammates_assigning(squad, attribute, target_value, count_double_for) ==
    CountAssigning(squad, attribute, target_value, count_double_for, Len(squad))

\* count_double_for = "" stands for the default None.
count_teammates(squad, attribute, target_value, count_double_for) ==
    SeqSum([i \in 1..Len(squad) |->
        IF squad[i][attribute] = target_value
        THEN (IF count_double_for # "" /\ squad[i][count_double_for] THEN 2 ELSE 1)
        ELSE 0])

\* The loop over sorted(thresholds.items()): keys is what is left to visit.
RECURSIVE ThresholdScan(_, _, _, _)
ThresholdScan(count, thresholds, keys, chemistry) ==
    IF keys = {} THEN chemistry
    ELSE LET threshold == SetMin(keys) IN
         IF count >= threshold
         THEN ThresholdScan(count, thresholds, keys \ {threshold}, thresholds[threshold])
         ELSE chemistry

get_chemistry_from_threshold(count, thresholds) ==
    ThresholdScan(count, thresholds, DOMAIN thresholds, 0)

calculate_player_chemistry(player, squad) ==
    IF player.is_icon \/ player.is_hero THEN 3
    ELSE LET club_count == count_teammates(squad, "club_ea_id", player.club_ea_id, "")
             club_chem == get_chemistry_from_threshold(club_count, THRESHOLDS.club)
             league_count ==
                 count_teammates(squad, "league_ea_id", player.league_ea_id, "is_hero")
             league_chem == get_chemistry_from_threshold(league_count, THRESHOLDS.league)
             nation_count ==
                 count_teammates(squad, "nation_ea_id", player.nation_ea_id, "is_icon")
             nation_chem == get_chemistry_from_threshold(nation_count, THRESHOLDS.nation)
         IN  Min2(club_chem + league_chem + nation_chem, 3)

\* calculate_squad_chemistry without the check of the squad's length.
calculate_squad_chemistry_any_length(squad) ==
    SeqSum([i \in 1..Len(squad) |-> calculate_player_chemistry(squad[i], squad)])

calculate_squad_chemistry(squad) ==
    IF squad = <<>> \/ Len(squad) # 11 THEN 0
    ELSE SeqSum([i \in 1..Len(squad) |-> calculate_player_chemistry(squad[i], squad)])

\* get_chemistry_breakdown: the dict it returns (no check of the length).
player_info(i, player, squad) ==
    LET club_count == count_teammates(squad, "club_ea_id", player.club_ea_id, "")
        league_count ==
            count_teammates(squad, "league_ea_id", player.league_ea_id, "is_hero")
        nation_count ==
            count_teammates(squad, "nation_ea_id", player.nation_ea_id, "is_icon")
    IN  [position         |-> i,
         name             |-> player.name,
         chemistry        |-> calculate_player_chemistry(player, squad),
         is_icon          |-> player.is_icon,
         is_hero          |-> player.is_hero,
         club_count       |-> club_count,
         club_chemistry   |-> get_chemistry_from_threshold(club_count, THRESHOLDS.club),
         league_count     |-> league_count,
         league_chemistry |-> get_chemistry_from_threshold(league_count, THRESHOLDS.league),
         nation_count     |-> nation_count,
         nation_chemistry |-> get_chemistry_from_threshold(nation_count, THRESHOLDS.nation)]

get_chemistry_breakdown(squad) ==
    LET players == [i \in 1..Len(squad) |-> player_info(i, squad[i], squad)] IN
    [total_chemistry |-> SeqSum([i \in 1..Len(squad) |-> players[i].chemistry]),
     max_chemistry   |-> 33,
     players         |-> players]

\* No call of the evaluator on its own has been made.
NoCall == [squad |-> <<>>, calls |-> {}, total_chemistry |-> 0, breakdown |-> <<>>]

(***************************************************************************)
(* optimizer/solver.py: the candidate provider                             *)
(***************************************************************************)
\* Squad size: the solver's range(11).
SquadSize == 11

Slots == 1..SquadSize

\* player.get('futbin_price', 1000000)
FALLBACK_PRICE == 1000000

\* Scale factor for the metarating in the objective.
SCALE == 100

include_player_set == Range(args.include_players)

HasRating(player, position) == position \in DOMAIN player.metaratings

\* position_meta.get('score', 0.0) of metaratings.get(position, {})
Score(player, position) ==
    IF HasRating(player, position) THEN player.metaratings[position] ELSE 0

\* base_query without the 0.01 floor on the score.
base_query_no_floor(player, position) ==
    /\ HasRating(player, position)
    /\ player.metaratings[position] >= args.min_metarating
    /\ (args.owned_only => player.ea_id \in owned_ids)

\* base_query with the floor 0.01 alone, min_metarating ignored.
base_query_floor_only(player, position) ==
    /\ HasRating(player, position)
    /\ player.metaratings[position] >= 10
    /\ (args.owned_only => player.ea_id \in owned_ids)

\* base_query without the owned_only filter.
base_query_any_owner(player, position) ==
    /\ HasRating(player, position)
    /\ player.metaratings[position] >= Max2(args.min_metarating, 10)

\* base_query: metaratings.P.score >= max(min_metarating, 0.01), and with
\* owned_only ea_id in owned_player_ids.
base_query(player, position) ==
    /\ HasRating(player, position)
    /\ player.metaratings[position] >= Max2(args.min_metarating, 10)
    /\ (args.owned_only => player.ea_id \in owned_ids)

\* The second branch of $or: the position entry exists and the player is required.
include_query(player, position) ==
    /\ HasRating(player, position)
    /\ player.ea_id \in include_player_set

query(player, position) ==
    IF include_player_set # {}
    THEN base_query(player, position) \/ include_query(player, position)
    ELSE base_query(player, position)

\* The orders .sort(score, -1) can produce for the documents S: descending
\* score, documents of equal score in any order.
RECURSIVE SortedDesc(_, _)
SortedDesc(S, position) ==
    IF S = {} THEN {<<>>}
    ELSE UNION {
        {<<id>> \o rest : rest \in SortedDesc(S \ {id}, position)} :
        id \in {i \in S : \A j \in S :
                   Score(catalogue[i], position) >= Score(catalogue[j], position)}}

\* The cursor without .limit(...).
Limit_absent(found) == found

\* .limit(limit + len(include_players))
Limit(found) ==
    SubSeq(found, 1, Min2(Len(found), args.candidate_limit + Cardinality(include_player_set)))

\* The price branches with is_required tested before is_owned.
candidate_price_required_first(player) ==
    IF player.ea_id \in include_player_set
    THEN (IF player.market_price # None THEN player.market_price
          ELSE IF player.futbin_price # None THEN player.futbin_price
          ELSE FALLBACK_PRICE)
    ELSE IF player.ea_id \in owned_ids THEN 0
    ELSE player.market_price

\* The price the loop over the query result gives a document; None when the
\* document is dropped (not owned, not required, no market price).
candidate_price(player) ==
    IF player.ea_id \in owned_ids THEN 0
    ELSE IF player.ea_id \in include_player_set
         THEN (IF player.market_price # None THEN player.market_price
               ELSE IF player.futbin_price # None THEN player.futbin_price
               ELSE FALLBACK_PRICE)
         ELSE player.market_price

RECURSIVE valid_candidates(_)
valid_candidates(found) ==
    IF found = <<>> THEN <<>>
    ELSE (IF candidate_price(catalogue[Head(found)]) # None THEN <<Head(found)>> ELSE <<>>)
         \o valid_candidates(Tail(found))

\* Every list get_candidates_for_position can return for the position.
get_candidates_for_position(position) ==
    {valid_candidates(Limit(found)) :
        found \in SortedDesc({id \in DOMAIN catalogue : query(catalogue[id], position)},
                             position)}

\* The candidate record: the document with the fields the loop adds to it.
Annotate(player, position) ==
    [ea_id        |-> player.ea_id,
     name         |-> player.name,
     club_ea_id   |-> player.club_ea_id,
     league_ea_id |-> player.league_ea_id,
     nation_ea_id |-> player.nation_ea_id,
     is_icon      |-> player.is_icon,
     is_hero      |-> player.is_hero,
     is_owned     |-> player.ea_id \in owned_ids,
     is_required  |-> player.ea_id \in include_player_set,
     metarating   |-> Score(player, position),
     price        |-> candidate_price(player)]

\* candidates[pos_idx][cand_idx]
Cand(s, c) == Annotate(catalogue[candidates[s][c]], args.positions[s])

(***************************************************************************)
(* optimizer/solver.py: the CP-SAT model.  x is a sequence giving, for     *)
(* each slot, the index of the candidate whose x[pos_idx, cand_idx] is 1   *)
(* (constraint 1, AddExactlyOne per slot).                                 *)
(***************************************************************************)
RECURSIVE AssignmentsUpTo(_)
AssignmentsUpTo(n) ==
    IF n = 0 THEN {<<>>}
    ELSE {Append(x, c) : x \in AssignmentsUpTo(n - 1), c \in 1..Len(candidates[n])}

Assignments == AssignmentsUpTo(SquadSize)

Picked(x) == [s \in Slots |-> Cand(s, x[s])]

\* Constraint 2a with the test len(pos_list) > 2 in place of len(pos_list) > 1.
unique_ea_id_above_two(x) ==
    \A ea_id \in UNION {Range(candidates[s]) : s \in Slots} :
        Cardinality({s \in Slots : ea_id \in Range(candidates[s])}) > 2
            => Cardinality({s \in Slots : candidates[s][x[s]] = ea_id}) <= 1

\* Constraint 2a: an ea_id listed at several (slot, candidate) places is chosen at most once.
unique_ea_id(x) ==
    \A ea_id \in UNION {Range(candidates[s]) : s \in Slots} :
        Cardinality({s \in Slots : candidates[s][x[s]] = ea_id}) <= 1

\* Constraint 2b: a name (trimmed, lower-cased, neither empty nor 'unknown')
\* listed at several places is chosen at most once.
player_names ==
    {n \in {NormName(catalogue[id].name) : id \in UNION {Range(candidates[s]) : s \in Slots}} :
        n # <<>> /\ n # UnknownName}

\* Constraint 2b on the names as stored, without strip() and lower().
unique_name_raw(x) ==
    \A name \in {catalogue[id].name : id \in UNION {Range(candidates[s]) : s \in Slots}} :
        (name # <<>> /\ name # UnknownName)
            => Cardinality({s \in Slots : catalogue[candidates[s][x[s]]].name = name}) <= 1

\* Constraint 2b with the required players left out of the name lists.
unique_name_not_required(x) ==
    \A name \in player_names :
        Cardinality({s \in Slots :
            /\ NormName(catalogue[candidates[s][x[s]]].name) = name
            /\ candidates[s][x[s]] \notin include_player_set}) <= 1

unique_name(x) ==
    \A name \in player_names :
        Cardinality({s \in Slots : NormName(catalogue[candidates[s][x[s]]].name) = name}) <= 1

\* Constraint 3 as an at-most-one constraint.
required_selected_at_most_once(x) ==
    \A required_id \in include_player_set :
        Cardinality({s \in Slots : candidates[s][x[s]] = required_id}) <= 1

\* Constraint 3: a required player found in some list is chosen exactly once.
required_selected(x) ==
    \A required_id \in include_player_set :
        (\E s \in Slots : required_id \in Range(candidates[s]))
            => Cardinality({s \in Slots : candidates[s][x[s]] = required_id}) = 1

\* Constraint 4: budget.
total_price(x) == SeqSum([s \in Slots |-> Cand(s, x[s]).price])

\* The budget constraint with the comparison reversed.
within_budget_flipped(x, budget) == total_price(x) >= budget

\* The budget constraint off by one coin.
within_budget_off_by_one(x, budget) == total_price(x) <= budget + 1

within_budget(x, budget) == total_price(x) <= budget

\* The club table with the first point at a count of one.
CLUB_TABLE_from_one == <<0, 1, 1, 1, 2, 2, 2, 3, 3, 3, 3, 3>>

\* The nation table with the steps of the club table.
NATION_TABLE_club_steps == <<0, 0, 1, 1, 2, 2, 2, 3, 3>> \o [i \in 1..14 |-> 3]

\* The lookup tables of the element constraints (index 0 is the first entry).
CLUB_TABLE == <<0, 0, 1, 1, 2, 2, 2, 3, 3, 3, 3, 3>>
LEAGUE_TABLE == <<0, 0, 0, 1, 1, 2, 2, 2, 3>> \o [i \in 1..14 |-> 3]
NATION_TABLE == <<0, 0, 1, 1, 1, 2, 2, 2, 3>> \o [i \in 1..14 |-> 3]

Element(index, table) == table[index + 1]

\* The ids that get a counter: those of any candidate, when truthy.
all_ids(attribute) ==
    {v \in {catalogue[id][attribute] : id \in UNION {Range(candidates[s]) : s \in Slots}} :
        Truthy(v)}

club_count(club_id, x) ==
    Cardinality({s \in Slots : Cand(s, x[s]).club_ea_id = club_id})

\* sum(terms) of the league counter when the players selected are `selected`.
league_terms(league_id, selected) ==
    SeqSum([s \in 1..Len(selected) |->
        IF selected[s].league_ea_id = league_id
        THEN (IF selected[s].is_hero THEN 2 ELSE 1) ELSE 0])

league_count(league_id, x) == league_terms(league_id, Picked(x))

nation_count(nation_id, x) ==
    SeqSum([s \in Slots |->
        IF Cand(s, x[s]).nation_ea_id = nation_id
        THEN (IF Cand(s, x[s]).is_icon THEN 2 ELSE 1) ELSE 0])

\* The value the model forces on player_chemistry[pos_idx] when x picks player.
capped_chem(player, x) ==
    IF player.is_icon \/ player.is_hero THEN 3
    ELSE LET club_id == player.club_ea_id
             league_id == player.league_ea_id
             nation_id == player.nation_ea_id
             club_chem ==
                 IF Truthy(club_id) /\ club_id \in all_ids("club_ea_id")
                 THEN Element(club_count(club_id, x), CLUB_TABLE) ELSE 0
             league_chem ==
                 IF Truthy(league_id) /\ league_id \in all_ids("league_ea_id")
                 THEN Element(league_count(league_id, x), LEAGUE_TABLE) ELSE 0
             nation_chem ==
                 IF Truthy(nation_id) /\ nation_id \in all_ids("nation_ea_id")
                 THEN Element(nation_count(nation_id, x), NATION_TABLE) ELSE 0
         IN  Min2(club_chem + league_chem + nation_chem, 3)

player_chemistry(x) == [s \in Slots |-> capped_chem(Cand(s, x[s]), x)]

\* The chemistry constraint with the bound on the wrong side.
chemistry_constraint_flipped(x, min_chemistry) ==
    LET total_chemistry == SeqSum(player_chemistry(x))
    IN  total_chemistry \in 0..33 /\ total_chemistry <= min_chemistry

\* HARD constraint: total_chemistry >= min_chemistry, total_chemistry in 0..33.
chemistry_constraint(x, min_chemistry) ==
    LET total_chemistry == SeqSum(player_chemistry(x))
    IN  total_chemistry \in 0..33 /\ total_chemistry >= min_chemistry

\* int(player.get('metarating', 0) * SCALE)
objective_term(metarating) == (metarating * SCALE) \div 1000

objective(x) == SeqSum([s \in Slots |-> objective_term(Cand(s, x[s]).metarating)])

\* The assignments that satisfy every constraint of the model.
Feasible(budget, min_chemistry) ==
    {x \in Assignments :
        /\ unique_ea_id(x)
        /\ unique_name(x)
        /\ required_selected(x)
        /\ within_budget(x, budget)
        /\ chemistry_constraint(x, min_chemistry)}

\* The assignments of F that maximise the objective.
Optimal(F) == {x \in F : \A y \in F : objective(y) <= objective(x)}

(***************************************************************************)
(* optimizer/solver.py: _extract_solution                                  *)
(***************************************************************************)
\* round(total_metarating, 2) on thousandths: to the nearest hundredth, ties to even.
Round2(m) ==
    LET q == m \div 10
        r == m % 10
    IN  IF r > 5 \/ (r = 5 /\ q % 2 = 1) THEN (q + 1) * 10 ELSE q * 10

\* squad_player with the catalogue's market price as the price.
squad_player_market_price(s, x) ==
    LET player == Cand(s, x[s]) IN
    [position       |-> args.positions[s],
     position_index |-> s - 1,
     ea_id          |-> player.ea_id,
     name           |-> player.name,
     metarating     |-> player.metarating,
     price          |-> catalogue[player.ea_id].market_price,
     is_owned       |-> player.is_owned,
     is_required    |-> player.ea_id \in include_player_set,
     club_ea_id     |-> player.club_ea_id,
     league_ea_id   |-> player.league_ea_id,
     nation_ea_id   |-> player.nation_ea_id,
     is_icon        |-> player.is_icon,
     is_hero        |-> player.is_hero,
     chemistry      |-> player_chemistry(x)[s]]

squad_player(s, x) ==
    LET player == Cand(s, x[s]) IN
    [position       |-> args.positions[s],
     position_index |-> s - 1,
     ea_id          |-> player.ea_id,
     name           |-> player.name,
     metarating     |-> player.metarating,
     price          |-> player.price,
     is_owned       |-> player.is_owned,
     is_required    |-> player.ea_id \in include_player_set,
     club_ea_id     |-> player.club_ea_id,
     league_ea_id   |-> player.league_ea_id,
     nation_ea_id   |-> player.nation_ea_id,
     is_icon        |-> player.is_icon,
     is_hero        |-> player.is_hero,
     chemistry      |-> player_chemistry(x)[s]]

\* _extract_solution with status_str always 'OPTIMAL'.
extract_solution_always_optimal(x, status) ==
    LET squad == [s \in Slots |-> squad_player(s, x)] IN
    [success          |-> TRUE,
     status           |-> "OPTIMAL",
     squad            |-> squad,
     total_metarating |-> Round2(SeqSum([s \in Slots |-> squad[s].metarating])),
     total_cost       |-> SeqSum([s \in Slots |-> squad[s].price]),
     total_chemistry  |-> SeqSum([s \in Slots |-> squad[s].chemistry]),
     actual_chemistry |-> calculate_squad_chemistry(squad),
     owned_count      |-> Cardinality({s \in Slots : squad[s].is_owned}),
     required_count   |-> Cardinality({s \in Slots : squad[s].is_required}),
     chemistry_valid  |-> TRUE]

extract_solution(x, status) ==
    LET squad == [s \in Slots |-> squad_player(s, x)] IN
    [success          |-> TRUE,
     status           |-> status,
     squad            |-> squad,
     total_metarating |-> Round2(SeqSum([s \in Slots |-> squad[s].metarating])),
     total_cost       |-> SeqSum([s \in Slots |-> squad[s].price]),
     total_chemistry  |-> SeqSum([s \in Slots |-> squad[s].chemistry]),
     actual_chemistry |-> calculate_squad_chemistry(squad),
     owned_count      |-> Cardinality({s \in Slots : squad[s].is_owned}),
     required_count   |-> Cardinality({s \in Slots : squad[s].is_required}),
     chemistry_valid  |-> TRUE]

\* A failure dict that carries an empty lineup and a total.
Failure_with_lineup(error, player_ids, position) ==
    [success |-> FALSE, error |-> error, player_ids |-> player_ids, position |-> position,
     squad |-> <<>>, total_cost |-> 0]

\* A failure dict: the message, and the identifiers the message names.
Failure(error, player_ids, position) ==
    [success |-> FALSE, error |-> error, player_ids |-> player_ids, position |-> position]

NoResult == Failure("", {}, "")

(***************************************************************************)
(* The inputs.  A catalogue of thirteen players: players 1..11 are rated   *)
(* for the slot of the formation with their number (3 and 4 both for CB,   *)
(* 7 and 8 both for CM), player 12 is a second striker, player 13 a third  *)
(* centre back.  A scenario k fixes what varies.  Without k.shared every   *)
(* club, league and nation id is the player's own.                         *)
(***************************************************************************)
Formation == <<"GK", "RB", "CB", "CB", "LB", "CDM", "CM", "CM", "RW", "ST", "LW">>

\* The largest candidate_limit of a request.
MaxLimit == 3

Letters == <<"a", "b", "c", "d", "e", "f", "g", "h", "i", "j", "k">>

\* Players 9 and 11, and player 12 unless it is "plain", share the id k.weak_id
\* in the dimension k.dim.
Affiliation(id, base, attribute, k) ==
    IF k.dim = attribute /\ (id \in {9, 11} \/ (id = 12 /\ k.p12 # "plain"))
    THEN k.weak_id
    ELSE base

PlayerName(id, k) ==
    CASE id = 4 /\ k.names = "collide" -> <<"S", "i">>
      [] id = 12 /\ k.names = "collide" -> <<" ", "s", "i", " ">>
      [] id = 4 /\ k.names = "unknown" -> <<"U", "n", "k", "n", "o", "w", "n">>
      [] id = 12 /\ k.names = "unknown" -> <<"u", "n", "k", "n", "o", "w", "n", " ">>
      [] id = 4 /\ k.names = "empty" -> <<>>
      [] id = 12 /\ k.names = "empty" -> <<" ">>
      [] id = 12 -> <<"P", "l">>
      [] id = 13 -> <<"P", "m">>
      [] OTHER -> <<"P", Letters[id]>>

Ratings(id, k) ==
    CASE id = 12 -> ("ST" :> k.p12_score)
      [] id = 13 -> IF k.r13 = None THEN ("LM" :> 79000) ELSE ("CB" :> k.r13)
      [] OTHER -> (Formation[id] :> 80000 + 100 * id)

Player(id, k) ==
    [ea_id        |-> id,
     name         |-> PlayerName(id, k),
     club_ea_id   |-> Affiliation(id, IF k.shared /\ id \in {1, 2} THEN 1 ELSE 100 + id,
                                  "club_ea_id", k),
     league_ea_id |-> Affiliation(id, IF k.shared /\ id \in 4..8 THEN 1 ELSE 200 + id,
                                  "league_ea_id", k),
     nation_ea_id |-> Affiliation(id, IF k.shared /\ (id \in 1..5 \/ id = 10) THEN 1
                                      ELSE 300 + id,
                                  "nation_ea_id", k),
     market_price |-> IF id = 12 THEN k.p12_price ELSE 1,
     futbin_price |-> None,
     metaratings  |-> Ratings(id, k),
     is_icon      |-> id = 12 /\ k.p12 = "icon",
     is_hero      |-> id = 12 /\ k.p12 = "hero"]

Default ==
    [weak_id |-> 7, dim |-> "club_ea_id", shared |-> TRUE, p12 |-> "plain", p12_price |-> 2,
     p12_score |-> 85000, names |-> "distinct", r13 |-> 79000,
     owned |-> {}, positions |-> Formation, budget |-> 1000, min_chemistry |-> 0,
     owned_only |-> FALSE, candidate_limit |-> 2, min_metarating |-> 0,
     include_players |-> <<>>]

ChemistryScenarios ==
    {[Default EXCEPT !.weak_id = w, !.dim = d, !.p12 = t, !.min_chemistry = m] :
        w \in {7, 0, None},
        d \in {"club_ea_id", "league_ea_id", "nation_ea_id"},
        t \in {"plain", "mate", "icon", "hero"},
        m \in {0, 22, 24}}

PriceScenarios ==
    {[Default EXCEPT !.p12_price = p, !.owned = o, !.budget = b, !.include_players = i,
                     !.owned_only = oo] :
        p \in {2, None},
        o \in {{}, 1..11, {12}},
        b \in {0, 11, 12, FALLBACK_PRICE},
        i \in {<<>>, <<12>>},
        oo \in BOOLEAN}

NameScenarios ==
    {[Default EXCEPT !.names = n, !.p12_score = r, !.include_players = i] :
        n \in {"distinct", "collide", "unknown", "empty"},
        r \in {85000, 81004, 81006},
        i \in {<<>>, <<12>>, <<4, 12>>}}

CandidateScenarios ==
    {[Default EXCEPT !.r13 = r, !.candidate_limit = l, !.include_players = i,
                     !.min_metarating = m] :
        r \in {79000, 80300, 0, None},
        l \in 1..MaxLimit,
        i \in {<<>>, <<12>>, <<13>>, <<12, 13>>, <<13, 99>>},
        m \in {0, 80000}}

ShapeScenarios ==
    {[Default EXCEPT !.positions = p, !.min_chemistry = m, !.include_players = i] :
        p \in {Formation, SubSeq(Formation, 1, 10), [Formation EXCEPT ![10] = "XX"],
               [Formation EXCEPT ![10] = "CF"]},
        m \in {0, 34},
        i \in {<<>>, <<99>>, <<12, 12>>}}

\* Catalogues in which no club, league or nation is shared (dim "none"), or
\* only the club of players 9 and 11.
LonelyScenarios ==
    {[Default EXCEPT !.shared = FALSE, !.dim = d, !.p12 = t, !.min_chemistry = m] :
        d \in {"none", "club_ea_id"},
        t \in {"plain", "icon"},
        m \in {0, 1, 5}}

Scenarios ==
    ChemistryScenarios \cup PriceScenarios \cup NameScenarios
        \cup CandidateScenarios \cup ShapeScenarios \cup LonelyScenarios

\* The parsed command line of scenario k.
Request(k) ==
    [positions |-> k.positions, budget |-> k.budget,
     min_chemistry |-> k.min_chemistry, owned_only |-> k.owned_only,
     candidate_limit |-> k.candidate_limit,
     min_metarating |-> k.min_metarating,
     include_players |-> k.include_players]

Init ==
    \E k \in Scenarios :
        /\ catalogue = [id \in 1..13 |-> Player(id, k)]
        /\ owned = k.owned
        /\ args = Request(k)
        /\ pc = "main"
        /\ db_log = <<>>
        /\ owned_ids = {}
        /\ candidates = <<>>
        /\ solved = [status |-> "NONE", x |-> <<>>]
        /\ result = NoResult
        /\ exit_code = None
        /\ evaluator = NoCall

(***************************************************************************)
(* optimizer/main.py: main, up to the call of optimize_squad               *)
(***************************************************************************)
valid_positions ==
    {"GK", "RB", "RWB", "CB", "LB", "LWB", "CDM", "RM", "CM", "LM",
     "CAM", "RF", "RW", "ST", "LW", "LF", "CF"}

ArgsValid ==
    /\ Len(args.positions) = 11
    /\ \A i \in DOMAIN args.positions : args.positions[i] \in valid_positions
    /\ ~(args.min_chemistry < 0 \/ args.min_chemistry > 33)
    /\ (args.include_players # <<>> =>
           /\ ~(Len(args.include_players) > 11)
           /\ Cardinality(Range(args.include_players)) = Len(args.include_players))

MainReject ==
    /\ pc = "main"
    /\ ~ArgsValid
    /\ exit_code' = 1
    /\ pc' = "exit"
    /\ UNCHANGED <<evaluator, catalogue, owned, args, db_log, owned_ids, candidates, solved, result>>

MainAccept ==
    /\ pc = "main"
    /\ ArgsValid
    /\ pc' = "construct"
    /\ UNCHANGED <<evaluator, catalogue, owned, args, db_log, owned_ids, candidates, solved, result,
                   exit_code>>

\* SquadOptimizer.__init__: self.db = get_database()
Construct ==
    /\ pc = "construct"
    /\ db_log' = Append(db_log, "get_database")
    /\ pc' = "optimize"
    /\ UNCHANGED <<evaluator, catalogue, owned, args, owned_ids, candidates, solved, result, exit_code>>

(***************************************************************************)
(* optimizer/solver.py: optimize_squad                                     *)
(***************************************************************************)
Return(r) ==
    /\ result' = r
    /\ pc' = "returned"

CheckLength ==
    /\ pc = "optimize"
    /\ IF Len(args.positions) # 11
       THEN Return(Failure("Must provide exactly 11 positions", {}, ""))
       ELSE pc' = "owned" /\ UNCHANGED result
    /\ UNCHANGED <<evaluator, catalogue, owned, args, db_log, owned_ids, candidates, solved, exit_code>>

\* owned_player_ids = self.get_owned_player_ids()
GetOwned ==
    /\ pc = "owned"
    /\ owned_ids' = owned
    /\ db_log' = Append(db_log, "my_club.find")
    /\ pc' = "required"
    /\ UNCHANGED <<evaluator, catalogue, owned, args, candidates, solved, result, exit_code>>

\* optimize_squad without the validation of the required players.
ValidateRequired_skipped ==
    /\ pc = "required"
    /\ pc' = "fetch"
    /\ UNCHANGED <<evaluator, catalogue, owned, args, db_log, owned_ids, candidates, solved,
                   result, exit_code>>

\* Validate required players exist: the loop returns at the first id (in the
\* set's iteration order) that find_one does not find.
ValidateRequired ==
    /\ pc = "required"
    /\ LET absent == {id \in include_player_set : id \notin DOMAIN catalogue} IN
       IF absent # {}
       THEN \E player_id \in absent :
                Return(Failure("Required player not found in database", {player_id}, ""))
       ELSE pc' = "fetch" /\ UNCHANGED result
    /\ db_log' = IF include_player_set # {} THEN Append(db_log, "players.find_one")
                 ELSE db_log
    /\ UNCHANGED <<evaluator, catalogue, owned, args, owned_ids, candidates, solved, exit_code>>

\* The loop over positions without the return on an empty list.
Fetch_past_empty ==
    /\ pc = "fetch"
    /\ LET position == args.positions[Len(candidates) + 1] IN
       \E pos_candidates \in get_candidates_for_position(position) :
           /\ candidates' = Append(candidates, pos_candidates)
           /\ pc' = IF Len(candidates) + 1 = Len(args.positions) THEN "placeable" ELSE "fetch"
    /\ db_log' = Append(db_log, "players.find")
    /\ UNCHANGED <<evaluator, catalogue, owned, args, owned_ids, solved, result, exit_code>>

\* One iteration of the loop over positions.
Fetch ==
    /\ pc = "fetch"
    /\ LET position == args.positions[Len(candidates) + 1] IN
       \E pos_candidates \in get_candidates_for_position(position) :
           /\ candidates' = Append(candidates, pos_candidates)
           /\ IF pos_candidates = <<>>
              THEN Return(Failure("No candidates found for position", {}, position))
              ELSE /\ pc' = IF Len(candidates) + 1 = Len(args.positions)
                            THEN "placeable" ELSE "fetch"
                   /\ UNCHANGED result
    /\ db_log' = Append(db_log, "players.find")
    /\ UNCHANGED <<evaluator, catalogue, owned, args, owned_ids, solved, exit_code>>

\* Check if all required players can be placed.
CheckPlaceable ==
    /\ pc = "placeable"
    /\ LET placeable_required ==
               {id \in UNION {Range(candidates[s]) : s \in DOMAIN candidates} :
                   id \in include_player_set}
           missing == include_player_set \ placeable_required
       IN  IF include_player_set # {} /\ missing # {}
           THEN Return(Failure("Required players cannot be placed", missing, ""))
           ELSE pc' = "solve" /\ UNCHANGED result
    /\ UNCHANGED <<evaluator, catalogue, owned, args, db_log, owned_ids, candidates, solved, exit_code>>

(***************************************************************************)
(* _build_and_solve_cpsat.  solver.Solve(model) under a time limit ends    *)
(* OPTIMAL with a best assignment, FEASIBLE with any assignment that       *)
(* satisfies the constraints, INFEASIBLE when there is none, or UNKNOWN    *)
(* when the time ran out first.                                            *)
(***************************************************************************)
SolveOptimal ==
    /\ pc = "solve"
    /\ \E x \in Optimal(Feasible(args.budget, args.min_chemistry)) :
        solved' = [status |-> "OPTIMAL", x |-> x]
    /\ pc' = "extract"
    /\ UNCHANGED <<evaluator, catalogue, owned, args, db_log, owned_ids, candidates, result, exit_code>>

SolveFeasible ==
    /\ pc = "solve"
    /\ \E x \in Feasible(args.budget, args.min_chemistry) :
        solved' = [status |-> "FEASIBLE", x |-> x]
    /\ pc' = "extract"
    /\ UNCHANGED <<evaluator, catalogue, owned, args, db_log, owned_ids, candidates, result, exit_code>>

SolveInfeasible ==
    /\ pc = "solve"
    /\ Feasible(args.budget, args.min_chemistry) = {}
    /\ solved' = [status |-> "INFEASIBLE", x |-> <<>>]
    /\ Return(Failure("No feasible solution exists", {}, ""))
    /\ UNCHANGED <<evaluator, catalogue, owned, args, db_log, owned_ids, candidates, exit_code>>

SolveUnknown ==
    /\ pc = "solve"
    /\ solved' = [status |-> "UNKNOWN", x |-> <<>>]
    /\ Return(Failure("Solver failed: UNKNOWN", {}, ""))
    /\ UNCHANGED <<evaluator, catalogue, owned, args, db_log, owned_ids, candidates, exit_code>>

Extract ==
    /\ pc = "extract"
    /\ Return(extract_solution(solved.x, solved.status))
    /\ UNCHANGED <<evaluator, catalogue, owned, args, db_log, owned_ids, candidates, solved, exit_code>>

\* main after the call: exit 1 unless success and chemistry_valid.
MainFinish ==
    /\ pc = "returned"
    /\ exit_code' = IF ~result.success \/ ~result.chemistry_valid THEN 1 ELSE 0
    /\ pc' = "exit"
    /\ UNCHANGED <<evaluator, catalogue, owned, args, db_log, owned_ids, candidates, solved, result>>

Next ==
    \/ MainReject
    \/ MainAccept
    \/ Construct
    \/ CheckLength
    \/ GetOwned
    \/ ValidateRequired
    \/ Fetch
    \/ CheckPlaceable
    \/ SolveOptimal
    \/ SolveFeasible
    \/ SolveInfeasible
    \/ SolveUnknown
    \/ Extract
    \/ MainFinish

Spec == Init /\ [][Next]_vars

(***************************************************************************)
(* optimizer/solver.py on its own: a caller other than main constructs a   *)
(* SquadOptimizer and calls optimize_squad with a request nobody checked.  *)
(***************************************************************************)
OptimizerInit ==
    \E k \in ShapeScenarios :
        /\ catalogue = [id \in 1..13 |-> Player(id, k)]
        /\ owned = k.owned
        /\ args = Request(k)
        /\ pc = "construct"
        /\ db_log = <<>>
        /\ owned_ids = {}
        /\ candidates = <<>>
        /\ solved = [status |-> "NONE", x |-> <<>>]
        /\ result = NoResult
        /\ exit_code = None
        /\ evaluator = NoCall

OptimizerNext ==
    \/ Construct
    \/ CheckLength
    \/ GetOwned
    \/ ValidateRequired
    \/ Fetch
    \/ CheckPlaceable
    \/ SolveOptimal
    \/ SolveFeasible
    \/ SolveInfeasible
    \/ SolveUnknown
    \/ Extract

OptimizerSpec == OptimizerInit /\ [][OptimizerNext]_vars

(***************************************************************************)
(* optimizer/chemistry.py on its own: the evaluator called on a squad.     *)
(* A squad of k.len players: the first k.clubmates share club 1, the last  *)
(* k.leaguemates share league 1, the first k.compatriots share nation 1,   *)
(* every other id is the player's own; the players k.nulls have the id     *)
(* k.null_id in the dimension k.dim; k.icons and k.heroes are the special  *)
(* cards.                                                                  *)
(***************************************************************************)
\* The largest number of players of a squad that lack the same id.
MaxNull == 3

SquadPlayer(i, k) ==
    [ea_id        |-> i,
     name         |-> <<"P", Letters[((i - 1) % SquadSize) + 1]>>,
     club_ea_id   |-> IF k.dim = "club_ea_id" /\ i \in k.nulls THEN k.null_id
                      ELSE IF i <= k.clubmates THEN 1 ELSE 100 + i,
     league_ea_id |-> IF k.dim = "league_ea_id" /\ i \in k.nulls THEN k.null_id
                      ELSE IF i > k.len - k.leaguemates THEN 1 ELSE 200 + i,
     nation_ea_id |-> IF k.dim = "nation_ea_id" /\ i \in k.nulls THEN k.null_id
                      ELSE IF i <= k.compatriots THEN 1 ELSE 300 + i,
     is_icon      |-> i \in k.icons,
     is_hero      |-> i \in k.heroes]

SquadDefault ==
    [len |-> SquadSize, clubmates |-> 2, leaguemates |-> 3, compatriots |-> 2,
     dim |-> "none", null_id |-> None, nulls |-> {}, icons |-> {}, heroes |-> {}]

ThresholdSquads ==
    {[SquadDefault EXCEPT !.clubmates = a, !.leaguemates = b, !.compatriots = c,
                          !.icons = i, !.heroes = h] :
        a \in 0..SquadSize, b \in 0..SquadSize, c \in 0..SquadSize,
        i \in {{}, {1}},
        h \in {{}, {SquadSize}, {SquadSize - 1, SquadSize}}}

NullSquads ==
    {[SquadDefault EXCEPT !.dim = d, !.null_id = v, !.nulls = 5..(4 + n),
                          !.icons = i, !.heroes = h] :
        d \in {"club_ea_id", "league_ea_id", "nation_ea_id"},
        v \in {None, 0},
        n \in 1..MaxNull,
        i \in {{}, {5}},
        h \in {{}, {6}}}

LengthSquads ==
    {[SquadDefault EXCEPT !.len = n, !.clubmates = a, !.heroes = h] :
        n \in {0, SquadSize - 1, SquadSize + 1},
        a \in {0, 7},
        h \in {{}, {1}}}

Squads == ThresholdSquads \cup NullSquads \cup LengthSquads

EvaluatorInit ==
    \E k \in Squads :
        /\ evaluator = [NoCall EXCEPT !.squad = [i \in 1..k.len |-> SquadPlayer(i, k)]]
        /\ pc = "evaluator"
        /\ catalogue = <<>>
        /\ owned = {}
        /\ args = Request(Default)
        /\ db_log = <<>>
        /\ owned_ids = {}
        /\ candidates = <<>>
        /\ solved = [status |-> "NONE", x |-> <<>>]
        /\ result = NoResult
        /\ exit_code = None

\* calculator.calculate_squad_chemistry(squad)
CalculateSquadChemistry ==
    /\ pc = "evaluator"
    /\ "calculate_squad_chemistry" \notin evaluator.calls
    /\ evaluator' = [evaluator EXCEPT
                        !.calls = @ \cup {"calculate_squad_chemistry"},
                        !.total_chemistry = calculate_squad_chemistry(evaluator.squad)]
    /\ UNCHANGED <<catalogue, owned, args, pc, db_log, owned_ids, candidates, solved, result,
                   exit_code>>

\* calculator.get_chemistry_breakdown(squad)
GetChemistryBreakdown ==
    /\ pc = "evaluator"
    /\ "get_chemistry_breakdown" \notin evaluator.calls
    /\ evaluator' = [evaluator EXCEPT
                        !.calls = @ \cup {"get_chemistry_breakdown"},
                        !.breakdown = get_chemistry_breakdown(evaluator.squad)]
    /\ UNCHANGED <<catalogue, owned, args, pc, db_log, owned_ids, candidates, solved, result,
                   exit_code>>

EvaluatorNext == CalculateSquadChemistry \/ GetChemistryBreakdown

EvaluatorSpec == EvaluatorInit /\ [][EvaluatorNext]_vars

(***************************************************************************)
(* Properties                                                              *)
(***************************************************************************)
\* optimize_squad has returned a success result.
Success == pc \in {"returned", "exit"} /\ result.success

\* The ea_ids of the returned lineup, by slot.
LineupIds == [s \in Slots |-> result.squad[s].ea_id]

\* C1: whenever optimize_squad returns a success result, the chemistry
\* evaluator applied to the returned lineup yields at least min_chemistry.
C1_EvaluatorMeetsMinChemistry ==
    Success => calculate_squad_chemistry(result.squad) >= args.min_chemistry

\* A success under a positive chemistry floor that the lineup meets exactly.
C1_Witness ==
    /\ Success
    /\ args.min_chemistry > 0
    /\ calculate_squad_chemistry(result.squad) = args.min_chemistry

\* C2: for every success result the sum of the solver's slot chemistry values
\* equals the evaluator's score of the extracted lineup, also for pools with
\* absent or zero club, league or nation ids.
C2_SolverChemistryEqualsEvaluator ==
    Success => result.total_chemistry = result.actual_chemistry

\* C3: a lineup whose evaluator score differs from the solver's summed slot
\* chemistry is never returned as a success, never marked chemistry_valid,
\* and main exits with status 1.
C3_MismatchIsRaised ==
    (/\ pc \in {"returned", "exit"}
     /\ solved.status \in {"OPTIMAL", "FEASIBLE"}
     /\ calculate_squad_chemistry([s \in Slots |-> squad_player(s, solved.x)])
            # SeqSum(player_chemistry(solved.x)))
        => /\ ~result.success
           /\ pc = "exit" => exit_code = 1

\* I1..I6 of an assignment y of one candidate per slot, as the data model
\* states them (I6 with the chemistry evaluator).
I1(y) == \A s \in Slots : HasRating(catalogue[candidates[s][y[s]]], args.positions[s])
I2(y) == \A s, t \in Slots : s # t => candidates[s][y[s]] # candidates[t][y[t]]
I3(y) ==
    \A s, t \in Slots :
        s # t => NormName(Cand(s, y[s]).name) # NormName(Cand(t, y[t]).name)
I4(y) ==
    \A r \in include_player_set : Cardinality({s \in Slots : candidates[s][y[s]] = r}) = 1
I5(y) == SeqSum([s \in Slots |-> Cand(s, y[s]).price]) <= args.budget
I6(y) == calculate_squad_chemistry(Picked(y)) >= args.min_chemistry

RatingSum(y) == SeqSum([s \in Slots |-> Cand(s, y[s]).metarating])

\* C4: when the status is OPTIMAL, no assignment drawn from the same candidate
\* lists that satisfies I1..I6 has a strictly larger sum of position ratings
\* than the returned lineup.
C4_OptimalIsBest ==
    (Success /\ result.status = "OPTIMAL")
        => \A y \in Assignments :
               (I1(y) /\ I2(y) /\ I3(y) /\ I4(y) /\ I5(y) /\ I6(y))
                   => RatingSum(y) <= RatingSum(solved.x)

\* The effective price of a catalogue player: 0 when owned, else the market
\* price, else (required, no market price) the fallback price.
EffectivePrice(id) ==
    IF id \in owned THEN 0
    ELSE IF catalogue[id].market_price # None THEN catalogue[id].market_price
    ELSE IF catalogue[id].futbin_price # None THEN catalogue[id].futbin_price
    ELSE FALLBACK_PRICE

\* C5: for every success result the reported total_cost is the sum of the
\* effective prices of the selected players and is at most the budget.
C5_CostWithinBudget ==
    Success =>
        /\ result.total_cost = SeqSum([s \in Slots |-> EffectivePrice(LineupIds[s])])
        /\ result.total_cost <= args.budget

\* A success that spends the whole budget, with an owned player and a
\* required player priced at the fallback in the lineup.
C5_Witness ==
    /\ Success
    /\ result.total_cost = args.budget
    /\ \E s \in Slots : result.squad[s].is_owned /\ catalogue[LineupIds[s]].market_price # 0
    /\ \E s \in Slots :
        /\ result.squad[s].is_required
        /\ catalogue[LineupIds[s]].market_price = None
        /\ result.squad[s].price = FALLBACK_PRICE

\* The positions a player has a rating entry for.
RatedPositions(id) == DOMAIN catalogue[id].metaratings

\* C6: for every success result each ea_id of the include set occupies exactly
\* one slot, required_count is the size of the include set, and a required
\* player rated for a single position that occurs once fills that slot.
C6_RequiredPlacedOnce ==
    Success =>
        /\ \A r \in include_player_set :
               Cardinality({s \in Slots : LineupIds[s] = r}) = 1
        /\ result.required_count = Cardinality(include_player_set)
        /\ \A r \in include_player_set : \A s \in Slots :
               (/\ RatedPositions(r) = {args.positions[s]}
                /\ Cardinality({t \in Slots : args.positions[t] = args.positions[s]}) = 1)
                   => LineupIds[s] = r

\* A success with two required players, one of them rated only for a position
\* that occurs once, the other below every other candidate of its slots.
C6_Witness ==
    /\ Success
    /\ Cardinality(include_player_set) = 2
    /\ \E r \in include_player_set : \E s \in Slots :
        /\ RatedPositions(r) = {args.positions[s]}
        /\ Cardinality({t \in Slots : args.positions[t] = args.positions[s]}) = 1
    /\ \E r \in include_player_set : \E s \in Slots :
        /\ LineupIds[s] = r
        /\ \A c \in DOMAIN candidates[s] :
               Cand(s, c).metarating >= result.squad[s].metarating

\* C7: for every success result the selected ea_ids are pairwise distinct.
C7_DistinctEaIds ==
    Success => \A s, t \in Slots : s # t => LineupIds[s] # LineupIds[t]

\* A success where a selected player is a candidate of two slots.
C7_Witness ==
    /\ Success
    /\ \E s, t \in Slots :
        /\ s # t
        /\ LineupIds[s] \in Range(candidates[t])

\* The original C8: for every success result the normalised names of the
\* selected players are pairwise distinct, whatever the name is.
C8_AllNamesDistinct ==
    Success =>
        \A s, t \in Slots :
            s # t => NormName(result.squad[s].name) # NormName(result.squad[t].name)

\* C8 as amended: for every success result, two selected players never share
\* a normalised name that is neither empty nor 'unknown'.
C8_RealNamesDistinct ==
    Success =>
        \A s, t \in Slots :
            (/\ s # t
             /\ NormName(result.squad[s].name) # <<>>
             /\ NormName(result.squad[s].name) # UnknownName)
                => NormName(result.squad[s].name) # NormName(result.squad[t].name)

\* A success over candidate lists that hold two players of different ea_id
\* whose names differ as stored and agree once normalised.
C8_Witness ==
    /\ Success
    /\ \E s, t \in Slots : \E c \in DOMAIN candidates[s] : \E d \in DOMAIN candidates[t] :
        /\ Cand(s, c).ea_id # Cand(t, d).ea_id
        /\ Cand(s, c).name # Cand(t, d).name
        /\ NormName(Cand(s, c).name) = NormName(Cand(t, d).name)
        /\ NormName(Cand(s, c).name) \notin {<<>>, UnknownName}

\* Every list built so far holds, for its slot's position P, only players
\* that satisfy Ok(player, P).
CandidatesAll(Ok(_, _)) ==
    \A s \in DOMAIN candidates : \A c \in DOMAIN candidates[s] :
        Ok(catalogue[candidates[s][c]], args.positions[s])

PositiveScore(player, position) ==
    HasRating(player, position) /\ player.metaratings[position] > 0

\* The original C9: every candidate for position P, required or not, has a
\* ratings entry for P with score > 0.
C9_CandidatesScorePositive == CandidatesAll(PositiveScore)

EntryAndPositiveUnlessRequired(player, position) ==
    /\ HasRating(player, position)
    /\ player.ea_id \notin include_player_set => player.metaratings[position] > 0

\* C9 as amended: every candidate for position P, and so every player
\* selected for a slot requiring P, has a ratings entry for P, and its score
\* is > 0 unless the player is in the include set.
C9_CandidatesRated ==
    /\ CandidatesAll(EntryAndPositiveUnlessRequired)
    /\ Success => \A s \in Slots : HasRating(catalogue[LineupIds[s]], args.positions[s])

\* A success whose lineup holds a required player with score 0 for its slot.
C9_Witness ==
    /\ Success
    /\ \E s \in Slots :
        /\ result.squad[s].is_required
        /\ HasRating(catalogue[LineupIds[s]], args.positions[s])
        /\ result.squad[s].metarating = 0

\* The largest objective value over the assignments F.
BestObjective(F) == CHOOSE v \in {objective(x) : x \in F} : \A x \in F : objective(x) <= v

\* C10: with the candidate lists and the include set fixed, if the problem is
\* feasible at (budget, min_chemistry) then it is feasible at every larger
\* budget and smaller min_chemistry, with an optimal total rating at least
\* as large.
C10_Monotone ==
    pc = "solve" =>
        LET F0 == Feasible(args.budget, args.min_chemistry) IN
        F0 # {} =>
            \A b \in {args.budget, args.budget + 1, FALLBACK_PRICE + 11} :
            \A m \in {args.min_chemistry, args.min_chemistry - 2, 0} :
                m >= 0 =>
                    LET F1 == Feasible(b, m) IN
                    F1 # {} /\ BestObjective(F1) >= BestObjective(F0)

\* A feasible problem whose optimum strictly improves with one more coin,
\* and strictly improves when the chemistry floor is lowered.
C10_Witness ==
    /\ pc = "solve"
    /\ Feasible(args.budget, args.min_chemistry) # {}
    /\ \/ BestObjective(Feasible(args.budget + 1, args.min_chemistry))
             > BestObjective(Feasible(args.budget, args.min_chemistry))
       \/ (/\ args.min_chemistry >= 2
           /\ BestObjective(Feasible(args.budget, args.min_chemistry - 2))
                > BestObjective(Feasible(args.budget, args.min_chemistry)))

(***************************************************************************)
(* Properties of the candidate lists (Spec)                                *)
(***************************************************************************)
\* The required players of the catalogue that have a rating entry for the
\* position of slot s.
RequiredRatedFor(s) ==
    {r \in include_player_set \cap DOMAIN catalogue :
        HasRating(catalogue[r], args.positions[s])}

\* The size .limit(...) cuts the query result to.
ListBound == args.candidate_limit + Cardinality(include_player_set)

\* C15: optimize_squad fails with 'cannot be placed' only when a required
\* player has no rating entry for any of the requested positions: a required
\* player of the catalogue with a rating for a requested position is in that
\* position's candidate list, whatever candidate_limit is and however many
\* players of the catalogue are rated higher.
C15_RequiredAlwaysListed ==
    /\ \A s \in DOMAIN candidates : RequiredRatedFor(s) \subseteq Range(candidates[s])
    /\ (/\ pc \in {"returned", "exit"}
        /\ ~result.success
        /\ result.error = "Required players cannot be placed")
           => \A r \in result.player_ids :
                  RatedPositions(r) \cap Range(args.positions) = {}

\* C16: get_candidates_for_position returns at most candidate_limit +
\* |include set| records, in order of non-increasing score for the position.
C16_ListBoundedAndSorted ==
    \A s \in DOMAIN candidates :
        /\ Len(candidates[s]) <= ListBound
        /\ \A c \in 1..(Len(candidates[s]) - 1) :
               Cand(s, c).metarating >= Cand(s, c + 1).metarating

\* A list of exactly candidate_limit + |include set| records, with a required
\* player in the request, scores that fall strictly, and more matching
\* players in the catalogue than the list holds.
C16_Witness ==
    \E s \in DOMAIN candidates :
        /\ include_player_set # {}
        /\ Len(candidates[s]) = ListBound
        /\ Len(candidates[s]) >= 2
        /\ Cand(s, 1).metarating > Cand(s, Len(candidates[s])).metarating
        /\ Cardinality({id \in DOMAIN catalogue : query(catalogue[id], args.positions[s])})
               > Len(candidates[s])

\* C17: the price of every candidate is 0 when the player is owned (required
\* or priced or not), otherwise its market price when it has one, otherwise,
\* for a required player, the large fallback price; a player that is neither
\* owned nor required and has no market price is in no candidate list.
C17_CandidatePrices ==
    \A s \in DOMAIN candidates : \A c \in DOMAIN candidates[s] :
        LET id == candidates[s][c]
            player == catalogue[id]
        IN  /\ id \in owned => Cand(s, c).price = 0
            /\ (id \notin owned /\ player.market_price # None)
                   => Cand(s, c).price = player.market_price
            /\ (id \notin owned /\ player.market_price = None /\ id \in include_player_set)
                   => Cand(s, c).price = FALLBACK_PRICE
            /\ ~(id \notin owned /\ id \notin include_player_set
                     /\ player.market_price = None)

\* All lists are built; they hold an owned player with a market price at
\* price 0 and a required player without market price at the fallback price,
\* and the problem they make up has a lineup within the budget.
C17_Witness ==
    /\ pc = "solve"
    /\ \E s \in Slots : \E c \in DOMAIN candidates[s] :
        /\ candidates[s][c] \in owned
        /\ catalogue[candidates[s][c]].market_price > 0
        /\ Cand(s, c).price = 0
    /\ \E s \in Slots : \E c \in DOMAIN candidates[s] :
        /\ candidates[s][c] \in include_player_set \ owned
        /\ catalogue[candidates[s][c]].market_price = None
        /\ Cand(s, c).price = FALLBACK_PRICE
    /\ Feasible(args.budget, args.min_chemistry) # {}

\* C18: every candidate for a position that is not in the include set has a
\* score >= min_metarating; a player of the include set is not rejected for
\* a score below min_metarating (it is in every list the limit did not cut
\* whose position it has a rating entry for).
C18_RatingFloor ==
    \A s \in DOMAIN candidates :
        /\ \A c \in DOMAIN candidates[s] :
               candidates[s][c] \notin include_player_set
                   => Cand(s, c).metarating >= args.min_metarating
        /\ Len(candidates[s]) < ListBound
               => RequiredRatedFor(s) \subseteq Range(candidates[s])

\* A list, not cut by the limit, that holds a required player scored below a
\* positive min_metarating next to a candidate that is not required.
C18_Witness ==
    \E s \in DOMAIN candidates :
        /\ args.min_metarating > 0
        /\ Len(candidates[s]) < ListBound
        /\ \E c \in DOMAIN candidates[s] :
            /\ candidates[s][c] \in include_player_set
            /\ Cand(s, c).metarating < args.min_metarating
        /\ \E c \in DOMAIN candidates[s] : candidates[s][c] \notin include_player_set

\* C19: when owned_only is set, every candidate of every slot's list, and so
\* every selected player, is in the owned set or in the include set.
C19_OwnedOnly ==
    args.owned_only =>
        /\ \A s \in DOMAIN candidates : \A c \in DOMAIN candidates[s] :
               candidates[s][c] \in owned \cup include_player_set
        /\ Success => \A s \in Slots : LineupIds[s] \in owned \cup include_player_set

\* A success under owned_only whose lineup holds owned players and a required
\* player that is not owned, over a catalogue with a rated, priced player
\* that is neither.
C19_Witness ==
    /\ Success
    /\ args.owned_only
    /\ \E s \in Slots : LineupIds[s] \in owned
    /\ \E s \in Slots : LineupIds[s] \in include_player_set \ owned
    /\ \E id \in DOMAIN catalogue : \E s \in Slots :
        /\ id \notin owned \cup include_player_set
        /\ catalogue[id].market_price # None
        /\ Score(catalogue[id], args.positions[s]) >= 10

\* C20: within a candidate list, candidates of equal score for the position
\* are in ascending ea_id order (so that two builds over the same catalogue
\* and inputs give identical lists).
C20_TiesByAscendingEaId ==
    \A s \in DOMAIN candidates : \A c \in 1..(Len(candidates[s]) - 1) :
        Cand(s, c).metarating = Cand(s, c + 1).metarating
            => candidates[s][c] < candidates[s][c + 1]

(***************************************************************************)
(* Properties of the chemistry evaluator (EvaluatorSpec)                   *)
(***************************************************************************)
\* The evaluator has returned from the function f.
Called(f) == pc = "evaluator" /\ f \in evaluator.calls

\* Points of a count under the thresholds t1 < t2 < t3 -> 1, 2, 3.
Points(count, t1, t2, t3) ==
    IF count >= t3 THEN 3 ELSE IF count >= t2 THEN 2 ELSE IF count >= t1 THEN 1 ELSE 0

\* The members of the squad that share p's id in a dimension, and those of
\* them that carry the flag.
Sharing(p, squad, attribute) == {j \in DOMAIN squad : squad[j][attribute] = p[attribute]}
Flagged(p, squad, attribute, flag) == {j \in Sharing(p, squad, attribute) : squad[j][flag]}

ClubPoints(p, squad) == Points(Cardinality(Sharing(p, squad, "club_ea_id")), 2, 4, 7)
LeaguePoints(p, squad) ==
    Points(Cardinality(Sharing(p, squad, "league_ea_id"))
               + Cardinality(Flagged(p, squad, "league_ea_id", "is_hero")), 3, 5, 8)
NationPoints(p, squad) ==
    Points(Cardinality(Sharing(p, squad, "nation_ea_id"))
               + Cardinality(Flagged(p, squad, "nation_ea_id", "is_icon")), 2, 5, 8)

\* The player has an id in each of the three dimensions.
HasIds(p) == p.club_ea_id # None /\ p.league_ea_id # None /\ p.nation_ea_id # None

Dimensions ==
    {[id |-> "club_ea_id", points |-> "club_chemistry", count |-> "club_count", double |-> ""],
     [id |-> "league_ea_id", points |-> "league_chemistry", count |-> "league_count",
      double |-> "is_hero"],
     [id |-> "nation_ea_id", points |-> "nation_chemistry", count |-> "nation_count",
      double |-> "is_icon"]}

\* The squad without the players that lack the id of the dimension.
RECURSIVE WithId(_, _)
WithId(squad, attribute) ==
    IF squad = <<>> THEN <<>>
    ELSE (IF Head(squad)[attribute] = None THEN <<>> ELSE <<Head(squad)>>)
         \o WithId(Tail(squad), attribute)

\* C12: in the evaluator a player whose club, league or nation id is absent
\* earns 0 points in that dimension, and is counted as sharing it with no
\* other member of the lineup, members that lack the id too included: the
\* counts of every other player are what they are without the players that
\* lack the id, a null-nation icon included.
C12_AbsentIdNeverMatches ==
    Called("get_chemistry_breakdown") =>
        LET squad == evaluator.squad
            info == evaluator.breakdown.players
        IN  \A d \in Dimensions : \A i \in DOMAIN squad :
                /\ squad[i][d.id] = None => info[i][d.points] = 0
                /\ \A j \in DOMAIN squad :
                       (j # i /\ squad[j][d.id] = None) =>
                           info[i][d.count]
                               = (IF squad[i][d.id] = None THEN 1 ELSE 0)
                                 + count_teammates(WithId(squad, d.id), d.id,
                                                   squad[i][d.id], d.double)

\* C13: calculate_squad_chemistry returns, for a lineup of exactly 11
\* players, an integer in 0..33 that is the sum of the 11 per-player values,
\* and 0 for an empty lineup or a lineup of any other length.
C13_SquadChemistry ==
    Called("calculate_squad_chemistry") =>
        LET squad == evaluator.squad IN
        /\ evaluator.total_chemistry \in 0..33
        /\ Len(squad) = 11 =>
               evaluator.total_chemistry
                   = SeqSum([i \in 1..11 |-> calculate_player_chemistry(squad[i], squad)])
        /\ Len(squad) # 11 => evaluator.total_chemistry = 0

\* Both functions have returned for an 11-player lineup whose chemistry is
\* positive and below the maximum; the breakdown's total agrees.
C13_Witness ==
    /\ Called("calculate_squad_chemistry")
    /\ Called("get_chemistry_breakdown")
    /\ Len(evaluator.squad) = 11
    /\ evaluator.total_chemistry \in 1..32
    /\ evaluator.total_chemistry = evaluator.breakdown.total_chemistry

\* The squad with the is_hero flags of the members i and j exchanged.
SwapHero(squad, i, j) ==
    [squad EXCEPT ![i].is_hero = squad[j].is_hero, ![j].is_hero = squad[i].is_hero]

\* C14: for any lineup and any two members of the same league, exchanging
\* their is_hero flags leaves the league count of that league unchanged, as
\* count_teammates computes it with hero doubling and as the solver's league
\* counter sums it.
C14_HeroSwapKeepsLeagueCount ==
    Called("get_chemistry_breakdown") =>
        LET squad == evaluator.squad IN
        \A i, j \in DOMAIN squad :
            (i # j /\ squad[i].league_ea_id = squad[j].league_ea_id) =>
                LET league_id == squad[i].league_ea_id
                    swapped == SwapHero(squad, i, j)
                IN  /\ count_teammates(swapped, "league_ea_id", league_id, "is_hero")
                           = evaluator.breakdown.players[i].league_count
                    /\ league_terms(league_id, swapped) = league_terms(league_id, squad)
                    /\ league_terms(league_id, squad)
                           = evaluator.breakdown.players[i].league_count

\* A breakdown of a lineup with a hero and a league mate that is no hero,
\* the hero's double weight counted.
C14_Witness ==
    /\ Called("get_chemistry_breakdown")
    /\ \E i, j \in DOMAIN evaluator.squad :
        /\ i # j
        /\ evaluator.squad[i].league_ea_id = evaluator.squad[j].league_ea_id
        /\ evaluator.squad[i].is_hero /\ ~evaluator.squad[j].is_hero
        /\ evaluator.breakdown.players[j].league_count
               > Cardinality(Sharing(evaluator.squad[j], evaluator.squad, "league_ea_id"))

(***************************************************************************)
(* Properties of the order of the steps and of the results                 *)
(***************************************************************************)
\* optimize_squad has been called and has returned.
Returned == pc = "returned" \/ (pc = "exit" /\ db_log # <<>>)

\* optimize_squad has returned the failure with this message.
Failed(error) == Returned /\ ~result.success /\ result.error = error

\* The number of candidate queries made so far.
Finds == Cardinality({i \in DOMAIN db_log : db_log[i] = "players.find"})

\* C21: the candidate lists are built in slot-index order (the s-th query
\* fills the list of slot s with players rated for positions[s]), and as
\* soon as a list is empty optimize_squad returns the 'no candidates for
\* position P' failure naming that slot's position: no later slot is
\* queried, no model is built or solved.
C21_EmptySlotAborts ==
    /\ Finds = Len(candidates)
    /\ \A s \in DOMAIN candidates : \A c \in DOMAIN candidates[s] :
           HasRating(catalogue[candidates[s][c]], args.positions[s])
    /\ \A s \in DOMAIN candidates :
           candidates[s] = <<>> =>
               /\ s = Len(candidates)
               /\ Failed("No candidates found for position")
               /\ result.position = args.positions[s]
               /\ solved.status = "NONE"
    /\ Failed("No candidates found for position") =>
           candidates # <<>> /\ candidates[Len(candidates)] = <<>>

\* The failure for a slot that has filled slots before it and slots after it.
C21_Witness ==
    /\ Failed("No candidates found for position")
    /\ Len(candidates) > 1
    /\ Len(candidates) < Len(args.positions)
    /\ \A s \in 1..(Len(candidates) - 1) : candidates[s] # <<>>

\* A request with an input-shape error.
ShapeError ==
    \/ Len(args.positions) # 11
    \/ \E i \in DOMAIN args.positions : args.positions[i] \notin valid_positions
    \/ args.min_chemistry \notin 0..33
    \/ Len(args.include_players) > 11
    \/ Cardinality(Range(args.include_players)) # Len(args.include_players)

\* C22: input-shape errors (number of positions other than 11, a position
\* code outside the closed set, min_chemistry outside 0..33, an include set
\* with duplicates or more than 11 ids) are rejected before any database
\* access, the creation of the database handle included, also when
\* optimize_squad is called by a caller other than main.
C22_ShapeErrorBeforeDatabase ==
    ShapeError => (db_log = <<>> /\ ~(Returned /\ result.success))

\* The required ids that are not in the catalogue.
AbsentRequired == include_player_set \ DOMAIN catalogue

\* C23: if an ea_id of the include set is absent from the catalogue,
\* optimize_squad returns a failure naming such an id before any candidate
\* list is built and without invoking the solver, also when a slot would
\* have no candidates or another required player could not be placed.
C23_MissingPlayerFirst ==
    AbsentRequired # {} =>
        /\ candidates = <<>>
        /\ Finds = 0
        /\ solved.status = "NONE"
        /\ Returned =>
               /\ Failed("Required player not found in database")
               /\ result.player_ids # {}
               /\ result.player_ids \subseteq AbsentRequired

\* The failure for a request that also holds a required player of the
\* catalogue without a rating for any requested position.
C23_Witness ==
    /\ Failed("Required player not found in database")
    /\ \E r \in include_player_set \cap DOMAIN catalogue :
        RatedPositions(r) \cap Range(args.positions) = {}

\* What C24 says of every status but UNKNOWN.
StatusDecidesResult ==
    /\ (Returned /\ result.success) => solved.status \in {"OPTIMAL", "FEASIBLE"}
    /\ (Returned /\ solved.status \in {"OPTIMAL", "FEASIBLE"}) =>
           result.success /\ result.status = solved.status
    /\ (Returned /\ solved.status = "INFEASIBLE") => Failed("No feasible solution exists")

C25_NoPartialResult ==
    Returned =>
        IF result.success
        THEN /\ Len(result.squad) = 11
             /\ \A s \in 1..11 :
                    /\ result.squad[s].position = args.positions[s]
                    /\ result.squad[s].position_index = s - 1
        ELSE /\ result.error # ""
             /\ DOMAIN result \cap {"squad", "total_metarating", "total_cost",
                                     "total_chemistry", "actual_chemistry",
                                     "owned_count", "required_count"} = {}

\* A failure returned after all eleven lists were built and the solver ran.
C25_Witness ==
    /\ Failed("No feasible solution exists")
    /\ Len(candidates) = 11
    /\ \A s \in Slots : candidates[s] # <<>>

\* score x 100 to the nearest integer, the score in thousandths.
NearestHundredth(metarating) == (metarating * 100 + 500) \div 1000

\* C26: the objective coefficient of each candidate (s, c) is its score x 100
\* rounded to the nearest integer.
C26_CoefficientRounded ==
    \A s \in DOMAIN candidates : \A c \in DOMAIN candidates[s] :
        objective_term(Cand(s, c).metarating) = NearestHundredth(Cand(s, c).metarating)

\* All lists are built, every candidate has its three ids and is neither icon
\* nor hero, and no two candidates share a club, a league or a nation.
NothingShared ==
    /\ Len(candidates) = SquadSize
    /\ LET ids == UNION {Range(candidates[s]) : s \in Slots} IN
       /\ \A a \in ids :
              /\ HasIds(catalogue[a])
              /\ ~catalogue[a].is_icon /\ ~catalogue[a].is_hero
       /\ \A a, b \in ids :
              a # b => \A attribute \in {"club_ea_id", "league_ea_id", "nation_ea_id"} :
                          catalogue[a][attribute] # catalogue[b][attribute]

\* C27: if no two candidates share a club, league or nation id (all ids
\* present) and none is an icon or hero, every lineup has chemistry 0, and
\* with min_chemistry >= 1 optimize_squad never returns a lineup: the model
\* has no solution, and the solver's verdict INFEASIBLE gives the INFEASIBLE
\* failure.
C27_NothingSharedIsInfeasible ==
    NothingShared =>
        /\ \A x \in Assignments :
               unique_ea_id(x) =>
                   /\ SeqSum(player_chemistry(x)) = 0
                   /\ calculate_squad_chemistry(Picked(x)) = 0
        /\ args.min_chemistry >= 1 =>
               /\ ~(Returned /\ result.success)
               /\ solved.status \notin {"OPTIMAL", "FEASIBLE"}
               /\ pc = "solve" => Feasible(args.budget, args.min_chemistry) = {}
               /\ (Returned /\ solved.status = "INFEASIBLE")
                      => Failed("No feasible solution exists")

\* The INFEASIBLE failure for such candidates, which have a lineup within
\* the budget when no chemistry is asked for.
C27_Witness ==
    /\ NothingShared
    /\ args.min_chemistry >= 1
    /\ solved.status = "INFEASIBLE"
    /\ Failed("No feasible solution exists")
    /\ Feasible(args.budget, 0) # {}

\* A table agrees with the thresholds on the counts 0..max, has one entry
\* per count, values in 0..3, and never falls.
TableMatches(table, thresholds, max) ==
    /\ Len(table) = max + 1
    /\ \A n \in 0..max :
           /\ Element(n, table) = get_chemistry_from_threshold(n, thresholds)
           /\ Element(n, table) \in 0..3
    /\ \A n \in 0..(max - 1) : Element(n, table) <= Element(n + 1, table)

\* C28: for every count of the counter's range (club 0..11, league 0..22,
\* nation 0..22) the solver's lookup table gives the points
\* get_chemistry_from_threshold gives under the evaluator's THRESHOLDS; the
\* mapping never falls, has values in 0..3, and each table has exactly one
\* entry per value of the range.  For the lineup the solver chose, the points
\* of each counter are those of the evaluator's count.
C28_TablesMatchThresholds ==
    /\ TableMatches(CLUB_TABLE, THRESHOLDS.club, 11)
    /\ TableMatches(LEAGUE_TABLE, THRESHOLDS.league, 22)
    /\ TableMatches(NATION_TABLE, THRESHOLDS.nation, 22)
    /\ solved.status \in {"OPTIMAL", "FEASIBLE"} =>
           LET x == solved.x
               squad == Picked(x)
           IN  \A s \in Slots :
                   /\ Truthy(squad[s].club_ea_id) =>
                          Element(club_count(squad[s].club_ea_id, x), CLUB_TABLE)
                              = get_chemistry_from_threshold(
                                    count_teammates(squad, "club_ea_id",
                                                    squad[s].club_ea_id, ""),
                                    THRESHOLDS.club)
                   /\ Truthy(squad[s].league_ea_id) =>
                          Element(league_count(squad[s].league_ea_id, x), LEAGUE_TABLE)
                              = get_chemistry_from_threshold(
                                    count_teammates(squad, "league_ea_id",
                                                    squad[s].league_ea_id, "is_hero"),
                                    THRESHOLDS.league)
                   /\ Truthy(squad[s].nation_ea_id) =>
                          Element(nation_count(squad[s].nation_ea_id, x), NATION_TABLE)
                              = get_chemistry_from_threshold(
                                    count_teammates(squad, "nation_ea_id",
                                                    squad[s].nation_ea_id, "is_icon"),
                                    THRESHOLDS.nation)

\* The solver chose a lineup with a club counter at 2, and a league and a
\* nation counter at 5 or more, one of them raised by a double weight.
C28_Witness ==
    /\ solved.status \in {"OPTIMAL", "FEASIBLE"}
    /\ LET x == solved.x
           squad == Picked(x)
       IN  /\ \E s \in Slots : club_count(squad[s].club_ea_id, x) = 2
           /\ \E s \in Slots : league_count(squad[s].league_ea_id, x) >= 5
           /\ \E s \in Slots : nation_count(squad[s].nation_ea_id, x) >= 5
           /\ \E s \in Slots :
                  \/ league_count(squad[s].league_ea_id, x)
                         > Cardinality(Sharing(squad[s], squad, "league_ea_id"))
                  \/ nation_count(squad[s].nation_ea_id, x)
                         > Cardinality(Sharing(squad[s], squad, "nation_ea_id"))

\* Two different required players of the catalogue have the same normalised
\* name, which is neither empty nor 'unknown'.
SameNameRequired ==
    \E a, b \in include_player_set \cap DOMAIN catalogue :
        /\ a # b
        /\ NormName(catalogue[a].name) = NormName(catalogue[b].name)
        /\ NormName(catalogue[a].name) \notin {<<>>, UnknownName}

\* C29: if two distinct ea_ids of the include set have the same normalised
\* name (not empty, not 'unknown'), optimize_squad never returns a lineup:
\* name uniqueness and mandatory inclusion conflict, the model has no
\* solution, and the solver's verdict INFEASIBLE gives the INFEASIBLE failure.
C29_SameNameRequiredIsInfeasible ==
    SameNameRequired =>
        /\ ~(Returned /\ result.success)
        /\ solved.status \notin {"OPTIMAL", "FEASIBLE"}
        /\ pc = "solve" => Feasible(args.budget, args.min_chemistry) = {}
        /\ (Returned /\ solved.status = "INFEASIBLE") => Failed("No feasible solution exists")

\* The INFEASIBLE failure for two such players, both in the candidate lists,
\* whose names differ as stored.
C29_Witness ==
    /\ SameNameRequired
    /\ solved.status = "INFEASIBLE"
    /\ Failed("No feasible solution exists")
    /\ \E a, b \in include_player_set :
        /\ a # b
        /\ catalogue[a].name # catalogue[b].name
        /\ NormName(catalogue[a].name) = NormName(catalogue[b].name)
        /\ \E s \in Slots : a \in Range(candidates[s])
        /\ \E s \in Slots : b \in Range(candidates[s])

\* C30: in every success result total_cost is the sum of the 11 entries'
\* prices, total_chemistry the sum of their chemistry values, owned_count
\* the number of entries with is_owned, required_count the number of entries
\* whose ea_id is in the include set, and every owned entry has price 0.
C30_AggregatesConsistent ==
    Success =>
        LET squad == result.squad IN
        /\ result.total_cost = SeqSum([s \in Slots |-> squad[s].price])
        /\ result.total_chemistry = SeqSum([s \in Slots |-> squad[s].chemistry])
        /\ result.owned_count = Cardinality({s \in Slots : squad[s].is_owned})
        /\ result.required_count
               = Cardinality({s \in Slots : squad[s].ea_id \in include_player_set})
        /\ \A s \in Slots :
               /\ squad[s].is_owned <=> squad[s].ea_id \in owned
               /\ squad[s].is_owned => squad[s].price = 0

\* A success with owned entries that have a market price, an entry that is
\* required and not owned, and a positive total cost.
C30_Witness ==
    /\ Success
    /\ result.owned_count \in 1..10
    /\ result.required_count >= 1
    /\ result.total_cost > 0
    /\ \E s \in Slots :
        /\ result.squad[s].is_owned
        /\ catalogue[result.squad[s].ea_id].market_price > 0
    /\ \E s \in Slots : result.squad[s].is_required /\ ~result.squad[s].is_owned

====
